---- MODULE Spec2Model ----
(***************************************************************************)
(* The Controller event loop of the flyer (controller/mod.rs) together     *)
(* with its ControllerState (controller/state.rs).                         *)
(*                                                                         *)
(* Lengths are integers: one unit is the smallest step of a position, a    *)
(* force count or a rect coordinate.  Time is counted in units of which    *)
(* WatchdogTimeout and DetectionMaxAge are multiples.                      *)
(*                                                                         *)
(* The loop body poll() is modelled by one action per stage, sequenced by  *)
(* pc: intake (one action per arm of handle_message), tick, video frame,   *)
(* config poll.  Other threads (the clock, a writer of SharedConfigFile)   *)
(* run between the stages.                                                 *)
(***************************************************************************)
EXTENDS Integers, Sequences, FiniteSets, TLC

VARIABLES
    local_config,   \* Controller.local_config
    shared_config,  \* the snapshot held by Controller.shared_config
    manual,         \* ControllerState.manual
    winches,        \* ControllerState.winches
    detected,       \* ControllerState.detected, as (age of the instant, objects, frame)
    pending_snap,   \* ControllerState.pending_snap
    tracked,        \* ControllerState.tracked
    last_mode,      \* ControllerState.last_mode
    pc,             \* position of the loop thread inside poll()
    out,            \* the calls the last stage made on its collaborators, in order
    inq,            \* the input channel: what Controller.recv will yield, oldest first
    bus,            \* Controller.bus and the BusReaders handed out
    clock,          \* the Instant the next message sent is stamped with
    callers,        \* the threads that call ControllerPort::add_rx
    timers          \* Controller.timers and config_scheduler: the timers whose
                    \* period is known to have elapsed since they last fired

vars == <<local_config, shared_config, manual, winches, detected, pending_snap,
          tracked, last_mode, pc, out, inq, bus, clock, callers, timers>>

(***************************************************************************)
(* Bounds of the model.                                                    *)
(***************************************************************************)
MaxPos == 1            \* positions and setpoints range over 0..MaxPos
WatchdogTimeout == 0   \* watchdog_timeout: a winch is overdue once its age exceeds it
DetectionMaxAge == 0   \* the 500 ms freshness window: a detection is stale once its age exceeds it

PosRange == 0 .. MaxPos

\* ids of the winches of the configuration the controller was started with
Winches == {0, 1}
\* ids a WinchStatus may carry: the configured ones and one that is not
StatusIds == Winches \cup {2}

Min(a, b) == IF a < b THEN a ELSE b
Max(a, b) == IF a > b THEN a ELSE b
Clamp(x, lo, hi) == Max(lo, Min(x, hi))

(***************************************************************************)
(* ControllerMode and Config.                                              *)
(***************************************************************************)
Halted == [tag |-> "Halted", winch |-> 0]
Normal == [tag |-> "Normal", winch |-> 0]
ManualFlyer == [tag |-> "ManualFlyer", winch |-> 0]
ManualWinch(i) == [tag |-> "ManualWinch", winch |-> i]

ControllerMode == {Halted, Normal, ManualFlyer} \cup {ManualWinch(i) : i \in Winches}

\* The leaves of Config the controller reads: the mode, the manual velocity
\* (params.manual_control_velocity_m_per_sec) and the area of the default
\* tracking rect (vision.tracking_default_area).
Velocities == {1}
DefaultAreas == {4, 16}

Config == [mode : ControllerMode, velocity : Velocities,
           tracking_default_area : DefaultAreas]

InitialConfig == [mode |-> Halted, velocity |-> 1, tracking_default_area |-> 4]

\* The rest of config.vision and config.params is fixed.
BorderRect == <<-2, -1, 4, 2>>     \* vision.border_rect, as (x, y, w, h)
TrackingMinArea == 1               \* vision.tracking_min_area
TrackingMaxArea == 16              \* vision.tracking_max_area
TrackingMinPsr == 1                \* vision.tracking_min_psr
ManualControlSpeed == 1            \* vision.manual_control_speed, per tick
RestoringForceDen == 2             \* 1 / (vision.manual_control_restoring_force * dt)
DeadzoneSq == 2                    \* square of vision.manual_camera_deadzone
ForceMin == 1                      \* params.force_min_kg, in counts
ForceMax == 3                      \* params.force_max_kg, in counts
ForceFilterDen == 2                \* 1 / params.force_filter_param
AccelStep == 1                     \* params.accel_rate_m_per_sec2 * dt, per tick
Forces == {0, 4}                   \* force.measure of a WinchStatus
SensorPositions == {0, 1}          \* sensors.position of a WinchStatus
\* vision.snap_tracked_region_to
SnapRules == <<[label |-> "person", prob |-> 5], [label |-> "dog", prob |-> 7]>>

(***************************************************************************)
(* vecmath: rects are (x, y, w, h).                                        *)
(***************************************************************************)
rect_area(r) == r[3] * r[4]
rect_center(r) == <<r[1] + r[3] \div 2, r[2] + r[4] \div 2>>
rect_translate(r, v) == <<r[1] + v[1], r[2] + v[2], r[3], r[4]>>

\* The rect no larger than the border, moved the least that puts it inside.
rect_constrain(r, border) ==
    LET w == Min(r[3], border[3])
        h == Min(r[4], border[4])
    IN  <<Clamp(r[1], border[1], border[1] + border[3] - w),
          Clamp(r[2], border[2], border[2] + border[4] - h), w, h>>

rect_inside(r, border) ==
    /\ r[1] >= border[1]
    /\ r[2] >= border[2]
    /\ r[1] + r[3] <= border[1] + border[3]
    /\ r[2] + r[4] <= border[2] + border[4]

\* f32::sqrt on the areas a Config can carry.
Sqrt(a) == CHOOSE s \in 0 .. a : s * s <= a /\ (s + 1) * (s + 1) > a

(***************************************************************************)
(* ManualControls (controller/manual.rs).                                  *)
(***************************************************************************)
Axes == {"CameraYaw", "CameraPitch", "RelativeX", "RelativeY", "RelativeZ"}
AxisValues == -1 .. 1

ManualNew == [axes |-> [a \in Axes |-> 0], velocity |-> <<0, 0, 0>>]

control_value(m, axis, value) ==
    [m EXCEPT !.axes[axis] = Clamp(value, -1, 1)]

control_reset(m) == [m EXCEPT !.axes = [a \in Axes |-> 0]]

full_reset(m) == ManualNew

Ramp(v, target) == v + Clamp(target - v, -AccelStep, AccelStep)

control_tick(m, config) ==
    [m EXCEPT !.velocity =
        <<Ramp(@[1], m.axes["RelativeX"] * config.velocity),
          Ramp(@[2], m.axes["RelativeY"] * config.velocity),
          Ramp(@[3], m.axes["RelativeZ"] * config.velocity)>>]

limited_velocity(m) == m.velocity

camera_vector(m) == <<m.axes["CameraYaw"], m.axes["CameraPitch"]>>

camera_control_active(m) ==
    m.axes["CameraYaw"] # 0 \/ m.axes["CameraPitch"] # 0

camera_vector_in_deadzone(v) == v[1] * v[1] + v[2] * v[2] < DeadzoneSq

(***************************************************************************)
(* WinchController (controller/winch.rs).                                  *)
(***************************************************************************)
MechNormal == [tag |-> "Normal", f |-> 0]
MechStuck == [tag |-> "Stuck", f |-> 0]
ForceLimited(f) == [tag |-> "ForceLimited", f |-> f]

\* The fields of a WinchController the loop reads back: the position
\* setpoint, the filtered force and the age of last_update_instant.
\* mech_status is recomputed by every update() and read only by the call
\* that computed it, so it is a value of that call (MechStatus below).
WinchNew == [setpoint |-> 0, filtered_force |-> 0, age |-> 0]

Lerp(a, b, den) == a + (b - a) \div den

\* A WinchStatus as the controller reads it: the sensor position, the measured
\* force, and whether the sensors have shown the winch below the velocity
\* deadband for the stuck timeout while it was commanded to move.
WinchStatus == [position : SensorPositions, force : Forces, stalled : BOOLEAN]

winch_update(w, status) ==
    [w EXCEPT !.filtered_force = Lerp(@, status.force, ForceFilterDen),
              !.age = 0]

\* The mech_status update() classifies, from the updated winch and the status.
MechStatus(w, status) ==
    IF status.stalled THEN MechStuck
    ELSE IF w.filtered_force >= ForceMax THEN ForceLimited(1)
    ELSE IF w.filtered_force <= ForceMin THEN ForceLimited(-1)
    ELSE MechNormal

\* position is the sensor position update() stored from the same status.
velocity_tick(w, config, mech_status, position, v_target) ==
    IF config.mode = Halted
    THEN [w EXCEPT !.setpoint = position]
    ELSE IF mech_status.tag = "ForceLimited" /\ mech_status.f * v_target > 0
    THEN w
    ELSE [w EXCEPT !.setpoint = @ + Clamp(v_target, -config.velocity, config.velocity)]

is_status_recent(w) == w.age <= WatchdogTimeout

make_command(w, config) ==
    [position |-> w.setpoint,
     enabled |-> config.mode # Halted /\ is_status_recent(w)]

multi_winch_watchdog_should_halt(ws) ==
    \E i \in Winches : ~is_status_recent(ws[i])

(***************************************************************************)
(* Messages.  Commands are flattened into the message type.                *)
(***************************************************************************)
WinchStatusMsg(id, status) == [type |-> "WinchStatus", id |-> id, status |-> status]
UpdateConfigMsg(patch) == [type |-> "UpdateConfig", patch |-> patch]
SetModeMsg(mode) == [type |-> "SetMode", mode |-> mode]
ManualControlValueMsg(axis, value) ==
    [type |-> "ManualControlValue", axis |-> axis, value |-> value]
ManualControlResetMsg == [type |-> "ManualControlReset"]
CameraObjectDetectionMsg(det) == [type |-> "CameraObjectDetection", det |-> det]
CameraRegionTrackingMsg(tr) == [type |-> "CameraRegionTracking", tr |-> tr]
ConfigIsCurrentMsg(config) == [type |-> "ConfigIsCurrent", config |-> config]
CameraInitTrackedRegionMsg(rect) == [type |-> "CameraInitTrackedRegion", rect |-> rect]
GimbalControlStatusMsg == [type |-> "GimbalControlStatus"]
CameraOverlaySceneMsg == [type |-> "CameraOverlayScene"]
\* A message whose handle_message arm changes nothing the model holds
\* (FlyerSensors, GimbalValue, CameraOutputStatus, the gimbal port commands)
\* or that has no arm at all.
OtherMsg(type) == [type |-> type]
OtherTypes == {"FlyerSensors", "GimbalStatus"}

(***************************************************************************)
(* Config::merge of an UpdateConfig patch: the leaves the patch names      *)
(* replace those of the config; the merge fails when the result is not a   *)
(* Config.                                                                 *)
(***************************************************************************)
Patch(leaves, well_typed) == [leaves |-> leaves, well_typed |-> well_typed]

Leaf(config, patch, f) ==
    IF f \in DOMAIN patch.leaves THEN patch.leaves[f] ELSE config[f]

merge(config, patch) ==
    IF patch.well_typed
    THEN [ok |-> TRUE,
          config |-> [mode |-> Leaf(config, patch, "mode"),
                      velocity |-> Leaf(config, patch, "velocity"),
                      tracking_default_area |->
                          Leaf(config, patch, "tracking_default_area")]]
    ELSE [ok |-> FALSE, config |-> config]

(***************************************************************************)
(* The broadcast bus (Bus and BusReader of the bus crate) and the input    *)
(* channel (std::sync::mpsc::sync_channel) behind the ControllerPort.      *)
(*                                                                         *)
(* The bus is one ring shared by all readers.  A seat is free again once   *)
(* every reader that was subscribed when it was written has read it, so    *)
(* the ring holds the entries some reader has yet to read, each with the   *)
(* readers it was written for; pos counts the entries of the ring a reader *)
(* has passed.  A reader is marked missed once a try_broadcast failed      *)
(* while fewer than BusDepth entries were waiting for it.  A bus without   *)
(* readers frees every seat at once and is left as it is.                  *)
(***************************************************************************)
BusDepth == 2      \* Bus::new(DEPTH)
InputDepth == 2    \* sync_channel(DEPTH)
MaxSent == 2       \* messages sent through the port

Callers == {1, 2}

BusNew == [ring |-> <<>>, readers |-> <<>>]

Readers(b) == DOMAIN b.readers

\* The entries of the ring a reader has yet to read.
backlog(b, r) == Len(b.ring) - b.readers[r].pos

\* The seats every reader has read are free.
bus_trim(b) ==
    LET rs == Readers(b)
        k == IF rs = {} THEN Len(b.ring)
             ELSE CHOOSE m \in {b.readers[r].pos : r \in rs} :
                      \A r \in rs : m <= b.readers[r].pos
    IN  [b EXCEPT !.ring = SubSeq(@, k + 1, Len(@)),
                  !.readers = [r \in rs |-> [@[r] EXCEPT !.pos = @ - k]]]

\* try_broadcast returns Err: the seat to write is still to be read.
bus_is_full(b) == Readers(b) # {} /\ Len(b.ring) >= BusDepth

try_broadcast(b, msg) ==
    IF Readers(b) = {} THEN b
    ELSE IF bus_is_full(b)
    THEN [b EXCEPT !.readers =
             [r \in Readers(b) |->
                 [@[r] EXCEPT !.missed = @ \/ backlog(b, r) < BusDepth]]]
    ELSE [b EXCEPT !.ring = Append(@, [msg |-> msg, for |-> Readers(b)])]

\* add_rx handing out a reader that starts at the oldest seat still in use.
bus_add_rx_from_head(b, r) ==
    [b EXCEPT !.readers = (r :> [pos |-> 0, missed |-> FALSE]) @@ @]

\* Bus::add_rx: the new reader starts at the tail of the ring.
bus_add_rx(b, r) ==
    [b EXCEPT !.readers = (r :> [pos |-> Len(b.ring), missed |-> FALSE]) @@ @]

bus_can_recv(b, r) == r \in Readers(b) /\ b.readers[r].pos < Len(b.ring)

\* BusReader::try_recv of a reader that has an entry to read.
bus_recv(b, r) == bus_trim([b EXCEPT !.readers[r].pos = @ + 1])

\* What the input channel carries (enum ControllerInput).
InputMessage(msg) == [kind |-> "Message", msg |-> msg]
ReaderRequest(caller) == [kind |-> "ReaderRequest", caller |-> caller]

\* SyncSender::try_send on the input channel: Err when it is full.
input_is_full(q) == Len(q) >= InputDepth
try_send(q, item) == IF input_is_full(q) THEN q ELSE Append(q, item)

\* TimestampedMessage: the message with the Instant it was sent at.
Timestamped(msg, t) == msg @@ ("timestamp" :> t)

(***************************************************************************)
(* The controller as a value: what the loop thread owns or writes, and the *)
(* calls it has made in the current stage.                                 *)
(***************************************************************************)
Ctl == [local_config |-> local_config, shared_config |-> shared_config,
        manual |-> manual, winches |-> winches, detected |-> detected,
        pending_snap |-> pending_snap, tracked |-> tracked,
        last_mode |-> last_mode, bus |-> bus, out |-> <<>>, alive |-> TRUE]

Emit(c, ev) == [c EXCEPT !.out = Append(@, ev)]

SharedSet(config) == [kind |-> "shared_config.set", config |-> config]
BusBroadcast(msg) == [kind |-> "broadcast", msg |-> msg]
WinchCommandSent(id, command) ==
    [kind |-> "winch_command", id |-> id, command |-> command]
VelocityTickCall(id, mech_status, velocity) ==
    [kind |-> "velocity_tick", id |-> id, mech_status |-> mech_status,
     velocity |-> velocity]

BusOverflowLogged == [kind |-> "log", text |-> "Controller output bus overflow!"]

broadcast(c, msg) ==
    LET c1 == Emit([c EXCEPT !.bus = try_broadcast(@, msg)], BusBroadcast(msg))
    IN  IF bus_is_full(c.bus) THEN Emit(c1, BusOverflowLogged) ELSE c1

halt_motion(c) == [c EXCEPT !.manual = full_reset(@)]

mode_changed(c) == halt_motion(c)

\* ControllerState::config_changed recording the mode without the motion halt.
state_config_changed_no_halt(c) == [c EXCEPT !.last_mode = c.local_config.mode]

state_config_changed(c) ==
    IF c.local_config.mode # c.last_mode
    THEN [mode_changed(c) EXCEPT !.last_mode = c.local_config.mode]
    ELSE c

\* config_changed publishing ConfigIsCurrent before it writes the shared config.
config_changed_broadcast_first(c) ==
    LET c1 == broadcast(c, ConfigIsCurrentMsg(c.local_config))
        c2 == Emit([c1 EXCEPT !.shared_config = c.local_config],
                   SharedSet(c.local_config))
    IN  state_config_changed(c2)

config_changed(c) ==
    LET c1 == Emit([c EXCEPT !.shared_config = c.local_config],
                   SharedSet(c.local_config))
        c2 == broadcast(c1, ConfigIsCurrentMsg(c.local_config))
    IN  state_config_changed(c2)

(***************************************************************************)
(* ControllerState: the winch control loop (controller/state.rs).          *)
(***************************************************************************)
\* target_velocity without the comparison of the manual winch with id.
target_velocity_any_winch(mode, id, v, mech_status) ==
    IF mode.tag = "ManualWinch"
    THEN CASE mech_status.tag = "Normal" -> v
           [] mech_status.tag = "Stuck" -> 0
           [] mech_status.tag = "ForceLimited" ->
                  IF v * mech_status.f < 0 THEN v ELSE 0
    ELSE 0

\* target_velocity passing the manual velocity on whatever the force limit.
target_velocity_ignoring_force(mode, id, v, mech_status) ==
    IF mode.tag = "ManualWinch"
    THEN IF mode.winch = id
         THEN CASE mech_status.tag = "Normal" -> v
                [] mech_status.tag = "Stuck" -> 0
                [] mech_status.tag = "ForceLimited" -> v
         ELSE 0
    ELSE 0

\* The velocity winch_control_loop hands to velocity_tick.
target_velocity(mode, id, v, mech_status) ==
    IF mode.tag = "ManualWinch"
    THEN IF mode.winch = id
         THEN CASE mech_status.tag = "Normal" -> v
                [] mech_status.tag = "Stuck" -> 0
                [] mech_status.tag = "ForceLimited" ->
                       IF v * mech_status.f < 0 THEN v ELSE 0
         ELSE 0
    ELSE 0

\* winch_control_loop reading the mech_status before update() has classified
\* the new status.
winch_control_loop_stale_status(c, id, status) ==
    LET w1 == winch_update(c.winches[id], status)
        velocity == target_velocity(c.local_config.mode, id,
                                    limited_velocity(c.manual)[2], MechNormal)
        w2 == velocity_tick(w1, c.local_config, MechNormal, status.position, velocity)
    IN  [winches |-> [c.winches EXCEPT ![id] = w2],
         mech_status |-> MechStatus(w1, status),
         velocity |-> velocity,
         command |-> make_command(w2, c.local_config)]

winch_control_loop(c, id, status) ==
    LET w1 == winch_update(c.winches[id], status)
        mech_status == MechStatus(w1, status)
        velocity == target_velocity(c.local_config.mode, id,
                                    limited_velocity(c.manual)[2], mech_status)
        w2 == velocity_tick(w1, c.local_config, mech_status, status.position, velocity)
    IN  [winches |-> [c.winches EXCEPT ![id] = w2],
         mech_status |-> mech_status,
         velocity |-> velocity,
         command |-> make_command(w2, c.local_config)]

(***************************************************************************)
(* ControllerState: the tracked region (controller/state.rs).              *)
(***************************************************************************)
None == [some |-> FALSE]
Some(x) == [some |-> TRUE, val |-> x]

CameraTrackedRegionNew == [rect |-> <<0, 0, 0, 0>>, psr |-> 0, age |-> 0, frame |-> 0]
CameraDetectedObjectsNew == [age |-> 0, objects |-> <<>>, frame |-> 0]

default_tracking_rect(config) ==
    LET side_len == Sqrt(config.tracking_default_area)
    IN  <<-(side_len \div 2), -(side_len \div 2), side_len, side_len>>

reset_tracking_rect(c) ==
    [c EXCEPT !.tracked = [CameraTrackedRegionNew EXCEPT
                               !.rect = default_tracking_rect(c.local_config)]]

RuleMatches(obj, i) ==
    obj.prob >= SnapRules[i].prob /\ obj.label = SnapRules[i].label

\* The loop over the detected objects replacing the result on an equal prob.
RECURSIVE BestSnap_last_wins(_, _, _)
BestSnap_last_wins(objects, i, result) ==
    IF i > Len(objects) THEN result
    ELSE LET obj == objects[i]
             next == IF \E r \in 1 .. Len(SnapRules) : RuleMatches(obj, r)
                     THEN IF ~result.some THEN Some(obj)
                          ELSE IF obj.prob >= result.val.prob THEN Some(obj)
                          ELSE result
                     ELSE result
         IN  BestSnap_last_wins(objects, i + 1, next)

RECURSIVE BestSnap(_, _, _)
BestSnap(objects, i, result) ==
    IF i > Len(objects) THEN result
    ELSE LET obj == objects[i]
             next == IF \E r \in 1 .. Len(SnapRules) : RuleMatches(obj, r)
                     THEN IF ~result.some THEN Some(obj)
                          ELSE IF obj.prob > result.val.prob THEN Some(obj)
                          ELSE result
                     ELSE result
         IN  BestSnap(objects, i + 1, next)

find_best_snap_object(c) ==
    IF ~c.pending_snap THEN None
    ELSE IF c.detected.age > DetectionMaxAge THEN None
    ELSE IF c.local_config.mode = Halted THEN None
    ELSE BestSnap(c.detected.objects, 1, None)

tracking_is_bad(c) ==
    LET area == rect_area(c.tracked.rect)
    IN  \/ c.tracked.age > 0 /\ c.tracked.psr < TrackingMinPsr
        \/ area < TrackingMinArea
        \/ area > TrackingMaxArea

\* The center manual steering moves the tracked rect to.  time_step is 1 on a
\* tick and 0 from the detection handler.
manual_center(c, time_step) ==
    LET vec == camera_vector(c.manual)
        camera_vec == IF camera_vector_in_deadzone(vec) THEN <<0, 0>> ELSE vec
        center == rect_center(c.tracked.rect)
    IN  <<center[1] + time_step * (camera_vec[1] * ManualControlSpeed)
                    + (time_step * (-center[1])) \div RestoringForceDen,
          center[2] + time_step * (-(camera_vec[2] * ManualControlSpeed))
                    + (time_step * (-center[2])) \div RestoringForceDen>>

\* tracking_update trying the snap before the manual steering.
tracking_update_snap_first(c, time_step, reset_from_gimbal) ==
    LET best == find_best_snap_object(c)
    IN  IF best.some
        THEN LET rect == rect_constrain(best.val.rect, BorderRect)
             IN  [c |-> [c EXCEPT !.pending_snap = FALSE,
                                  !.tracked.rect = rect,
                                  !.tracked.frame = c.detected.frame],
                  rect |-> Some(rect)]
        ELSE IF camera_control_active(c.manual)
        THEN LET rect == rect_constrain(
                             rect_translate(default_tracking_rect(c.local_config),
                                            manual_center(c, time_step)),
                             BorderRect)
             IN  [c |-> [c EXCEPT !.tracked.rect = rect], rect |-> Some(rect)]
        ELSE IF tracking_is_bad(c) \/ reset_from_gimbal
        THEN LET c1 == reset_tracking_rect(c)
             IN  [c |-> c1, rect |-> Some(c1.tracked.rect)]
        ELSE [c |-> c, rect |-> None]

\* tracking_update with a snap branch that leaves pending_snap set.
tracking_update_keep_pending(c, time_step, reset_from_gimbal) ==
    LET best == find_best_snap_object(c)
    IN  IF camera_control_active(c.manual)
        THEN LET rect == rect_constrain(
                             rect_translate(default_tracking_rect(c.local_config),
                                            manual_center(c, time_step)),
                             BorderRect)
             IN  [c |-> [c EXCEPT !.tracked.rect = rect], rect |-> Some(rect)]
        ELSE IF best.some
        THEN LET rect == rect_constrain(best.val.rect, BorderRect)
             IN  [c |-> [c EXCEPT !.tracked.rect = rect,
                                  !.tracked.frame = c.detected.frame],
                  rect |-> Some(rect)]
        ELSE IF tracking_is_bad(c) \/ reset_from_gimbal
        THEN LET c1 == reset_tracking_rect(c)
             IN  [c |-> c1, rect |-> Some(c1.tracked.rect)]
        ELSE [c |-> c, rect |-> None]

\* The controller after tracking_update, and the rect it returns.  The body in
\* state.rs takes no reset flag; the call in poll() passes one, and it counts
\* as bad tracking.
tracking_update(c, time_step, reset_from_gimbal) ==
    LET best == find_best_snap_object(c)
    IN  IF camera_control_active(c.manual)
        THEN LET rect == rect_constrain(
                             rect_translate(default_tracking_rect(c.local_config),
                                            manual_center(c, time_step)),
                             BorderRect)
             IN  [c |-> [c EXCEPT !.tracked.rect = rect], rect |-> Some(rect)]
        ELSE IF best.some
        THEN LET rect == rect_constrain(best.val.rect, BorderRect)
             IN  [c |-> [c EXCEPT !.pending_snap = FALSE,
                                  !.tracked.rect = rect,
                                  !.tracked.frame = c.detected.frame],
                  rect |-> Some(rect)]
        ELSE IF tracking_is_bad(c) \/ reset_from_gimbal
        THEN LET c1 == reset_tracking_rect(c)
             IN  [c |-> c1, rect |-> Some(c1.tracked.rect)]
        ELSE [c |-> c, rect |-> None]

camera_object_detection_update(c, det) ==
    [c EXCEPT !.detected = [age |-> 0, objects |-> det.objects, frame |-> det.frame],
              !.pending_snap = TRUE]

\* camera_region_tracking_update without the test of the manual camera control.
camera_region_tracking_update_always(c, tr) == [c EXCEPT !.tracked = tr]

camera_region_tracking_update(c, tr) ==
    IF ~camera_control_active(c.manual) THEN [c EXCEPT !.tracked = tr] ELSE c

(***************************************************************************)
(* Controller::handle_message and the stages of Controller::poll           *)
(* (controller/mod.rs).                                                    *)
(***************************************************************************)
\* The WinchStatus arm.  config.winches[id] and self.winches[id] panic on an
\* id that has no entry, which ends the loop thread.
handle_winch_status(c, id, status) ==
    IF id \notin Winches
    THEN [c EXCEPT !.alive = FALSE]
    ELSE LET r == winch_control_loop(c, id, status)
             c1 == Emit([c EXCEPT !.winches = r.winches],
                        VelocityTickCall(id, r.mech_status, r.velocity))
             c2 == IF multi_winch_watchdog_should_halt(c1.winches)
                   THEN config_changed([c1 EXCEPT !.local_config.mode = Halted])
                   ELSE c1
         IN  Emit(c2, WinchCommandSent(id, r.command))

\* The UpdateConfig arm replacing the local config without config_changed.
handle_update_config_unpublished(c, patch) ==
    LET r == merge(c.local_config, patch)
    IN  IF r.ok THEN [c EXCEPT !.local_config = r.config] ELSE c

\* The UpdateConfig arm running config_changed on a merge error as well.
handle_update_config_publish_on_error(c, patch) ==
    LET r == merge(c.local_config, patch)
    IN  IF r.ok THEN config_changed([c EXCEPT !.local_config = r.config])
        ELSE config_changed(c)

handle_update_config(c, patch) ==
    LET r == merge(c.local_config, patch)
    IN  IF r.ok THEN config_changed([c EXCEPT !.local_config = r.config]) ELSE c

\* The SetMode arm without the comparison with the current mode.
handle_set_mode_unconditional(c, mode) ==
    config_changed([c EXCEPT !.local_config.mode = mode])

handle_set_mode(c, mode) ==
    IF c.local_config.mode # mode
    THEN config_changed([c EXCEPT !.local_config.mode = mode])
    ELSE c

\* The CameraObjectDetection arm dropping the rect tracking_update returns.
handle_camera_object_detection_silent(c, det) ==
    tracking_update(camera_object_detection_update(c, det), 0, FALSE).c

handle_camera_object_detection(c, det) ==
    LET r == tracking_update(camera_object_detection_update(c, det), 0, FALSE)
    IN  IF r.rect.some
        THEN broadcast(r.c, CameraInitTrackedRegionMsg(r.rect.val))
        ELSE r.c

\* handle_message with an arm that adopts the config of a ConfigIsCurrent.
handle_message_adopting(c, msg) ==
    CASE msg.type = "UpdateConfig" -> handle_update_config(c, msg.patch)
      [] msg.type = "WinchStatus" -> handle_winch_status(c, msg.id, msg.status)
      [] msg.type = "CameraObjectDetection" ->
             handle_camera_object_detection(c, msg.det)
      [] msg.type = "CameraRegionTracking" ->
             camera_region_tracking_update(c, msg.tr)
      [] msg.type = "SetMode" -> handle_set_mode(c, msg.mode)
      [] msg.type = "ManualControlValue" ->
             [c EXCEPT !.manual = control_value(@, msg.axis, msg.value)]
      [] msg.type = "ManualControlReset" ->
             [c EXCEPT !.manual = control_reset(@)]
      [] msg.type = "ConfigIsCurrent" ->
             config_changed([c EXCEPT !.local_config = msg.config])
      [] OTHER -> c

handle_message(c, msg) ==
    CASE msg.type = "UpdateConfig" -> handle_update_config(c, msg.patch)
      [] msg.type = "WinchStatus" -> handle_winch_status(c, msg.id, msg.status)
      [] msg.type = "CameraObjectDetection" ->
             handle_camera_object_detection(c, msg.det)
      [] msg.type = "CameraRegionTracking" ->
             camera_region_tracking_update(c, msg.tr)
      [] msg.type = "SetMode" -> handle_set_mode(c, msg.mode)
      [] msg.type = "ManualControlValue" ->
             [c EXCEPT !.manual = control_value(@, msg.axis, msg.value)]
      [] msg.type = "ManualControlReset" ->
             [c EXCEPT !.manual = control_reset(@)]
      [] OTHER -> c

\* The Message arm handling the message before it broadcasts it.
poll_message_handle_first(c, msg) == broadcast(handle_message(c, msg), msg)

\* poll(), the Message arm of the intake.
poll_message(c, msg) == handle_message(broadcast(c, msg), msg)

\* poll(), the tick timer's block.
poll_tick(c, reset_tracking) ==
    LET c1 == [c EXCEPT !.manual = control_tick(@, c.local_config)]
        c2 == broadcast(c1, GimbalControlStatusMsg)
        r == tracking_update(c2, 1, reset_tracking)
    IN  IF r.rect.some
        THEN broadcast(r.c, CameraInitTrackedRegionMsg(r.rect.val))
        ELSE r.c

\* poll(), the video frame timer's block.
poll_video_frame(c) == broadcast(c, CameraOverlaySceneMsg)

\* poll(), the config scheduler: adopt the shared snapshot when it differs.
poll_config(c) ==
    IF c.shared_config # c.local_config
    THEN config_changed([c EXCEPT !.local_config = c.shared_config])
    ELSE c

Timers == {"tick", "video_frame", "config"}

(***************************************************************************)
(* The state machine.                                                      *)
(***************************************************************************)
Init ==
    /\ local_config = InitialConfig
    /\ shared_config = InitialConfig
    /\ manual = ManualNew
    /\ winches = [i \in Winches |-> WinchNew]
    /\ detected = CameraDetectedObjectsNew
    /\ pending_snap = FALSE
    /\ tracked = CameraTrackedRegionNew
    /\ last_mode = InitialConfig.mode
    /\ pc = "recv"
    /\ out = <<>>
    /\ inq = <<>>
    /\ bus = BusNew
    /\ clock = 0
    /\ callers = [a \in Callers |-> "idle"]
    /\ timers = [t \in Timers |-> FALSE]

\* The outcomes of a timer's poll(): true once its period has elapsed, and
\* either while that is not known.
TimerFires(t) == IF timers[t] THEN {TRUE} ELSE BOOLEAN

\* The timer after poll(): a period that elapsed is consumed, however many
\* periods went by.
timer_polled(t) == [timers EXCEPT ![t] = FALSE]

\* Setpoints stay in the range the model covers.
InBounds(c) == \A i \in Winches : c.winches[i].setpoint \in PosRange

Install(c, next_pc) ==
    /\ InBounds(c)
    /\ local_config' = c.local_config
    /\ shared_config' = c.shared_config
    /\ manual' = c.manual
    /\ winches' = c.winches
    /\ detected' = c.detected
    /\ pending_snap' = c.pending_snap
    /\ tracked' = c.tracked
    /\ last_mode' = c.last_mode
    /\ out' = c.out
    /\ bus' = c.bus
    /\ pc' = IF c.alive THEN next_pc ELSE "panicked"

Intake(msg) ==
    /\ pc = "recv"
    /\ Install(poll_message(Ctl, msg), "tick")
    /\ UNCHANGED <<inq, clock, callers, timers>>

TickStage ==
    /\ pc = "tick"
    /\ \E fire \in TimerFires("tick"), reset_tracking \in BOOLEAN :
           Install(IF fire THEN poll_tick(Ctl, reset_tracking) ELSE Ctl, "video")
    /\ timers' = timer_polled("tick")
    /\ UNCHANGED <<inq, clock, callers>>

VideoStage ==
    /\ pc = "video"
    /\ \E fire \in TimerFires("video_frame") :
           Install(IF fire THEN poll_video_frame(Ctl) ELSE Ctl, "config")
    /\ timers' = timer_polled("video_frame")
    /\ UNCHANGED <<inq, clock, callers>>

ConfigPollStage ==
    /\ pc = "config"
    /\ \E fire \in TimerFires("config") :
           Install(IF fire THEN poll_config(Ctl) ELSE Ctl, "recv")
    /\ timers' = timer_polled("config")
    /\ UNCHANGED <<inq, clock, callers>>

\* One time unit passes.  Ages are counted up to the first value past their
\* limit, and the age of a detection while a snap is pending, which is the
\* only time find_best_snap_object reads it.
TimePasses ==
    /\ winches' = [i \in Winches |->
                      [winches[i] EXCEPT !.age = Min(@ + 1, WatchdogTimeout + 1)]]
    /\ detected' = IF pending_snap
                   THEN [detected EXCEPT !.age = Min(@ + 1, DetectionMaxAge + 1)]
                   ELSE detected
    /\ UNCHANGED <<local_config, shared_config, manual, pending_snap, tracked,
                   last_mode, pc, out, inq, bus, clock, callers, timers>>

\* The snapshots another holder of the SharedConfigFile writes: one that
\* differs from the initial config in its mode, one in a vision parameter.
ExternalConfigs ==
    {[InitialConfig EXCEPT !.mode = Normal],
     [InitialConfig EXCEPT !.tracking_default_area = 16]}

\* Another thread replaces the snapshot of the SharedConfigFile.
ExternalConfigWrite ==
    /\ \E config \in ExternalConfigs : shared_config' = config
    /\ UNCHANGED <<local_config, manual, winches, detected, pending_snap, tracked,
                   last_mode, pc, out, inq, bus, clock, callers, timers>>

\* The inputs.
Patches ==
    {Patch("mode" :> m, TRUE) : m \in {Halted, Normal, ManualWinch(0)}}
        \cup {Patch("tracking_default_area" :> a, TRUE) : a \in DefaultAreas}
        \cup {Patch("mode" :> Normal, FALSE)}

Objects == {[rect |-> <<0, 0, 2, 2>>, prob |-> 5, label |-> "person"],
            [rect |-> <<1, 0, 2, 2>>, prob |-> 9, label |-> "person"],
            [rect |-> <<-3, -1, 2, 4>>, prob |-> 9, label |-> "cat"]}
Detections == {[objects |-> <<>>, frame |-> 1]}
                  \cup {[objects |-> <<o>>, frame |-> 1] : o \in Objects}
\* Detections of several objects: a tie of the highest prob, a tie in the
\* other order, an object below the minimum of its own label's rule, and a
\* list in which nothing qualifies.
Person5 == [rect |-> <<0, 0, 2, 2>>, prob |-> 5, label |-> "person"]
Person9 == [rect |-> <<1, 0, 2, 2>>, prob |-> 9, label |-> "person"]
Dog9 == [rect |-> <<-1, -1, 2, 2>>, prob |-> 9, label |-> "dog"]
Dog5 == [rect |-> <<-2, -1, 2, 2>>, prob |-> 5, label |-> "dog"]
Cat9 == [rect |-> <<-3, -1, 2, 4>>, prob |-> 9, label |-> "cat"]
DetectionLists == {[objects |-> <<Person5, Person9, Dog9>>, frame |-> 2],
                   [objects |-> <<Person5, Dog9, Person9>>, frame |-> 3],
                   [objects |-> <<Dog5, Person5>>, frame |-> 4],
                   [objects |-> <<Cat9, Dog5>>, frame |-> 5]}
TrackedRegions == {[rect |-> <<0, -1, 2, 2>>, psr |-> 1, age |-> 1, frame |-> 1],
                   [rect |-> <<0, -1, 2, 2>>, psr |-> 0, age |-> 1, frame |-> 1],
                   [rect |-> <<1, 0, 2, 2>>, psr |-> 1, age |-> 1, frame |-> 1]}
NominalStatus == [position |-> 0, force |-> 0, stalled |-> FALSE]

IntakeWinchStatus ==
    \E id \in StatusIds, status \in WinchStatus : Intake(WinchStatusMsg(id, status))
IntakeUpdateConfig == \E patch \in Patches : Intake(UpdateConfigMsg(patch))
IntakeSetMode == \E mode \in ControllerMode : Intake(SetModeMsg(mode))
IntakeManualRelative ==
    \E value \in AxisValues : Intake(ManualControlValueMsg("RelativeY", value))
IntakeManualCamera ==
    \E axis \in {"CameraYaw", "CameraPitch"}, value \in {-1, 1} :
        Intake(ManualControlValueMsg(axis, value))
IntakeWinchStatusNominal ==
    \E id \in Winches : Intake(WinchStatusMsg(id, NominalStatus))
IntakeManualControlReset == Intake(ManualControlResetMsg)
IntakeCameraObjectDetection ==
    \E det \in Detections : Intake(CameraObjectDetectionMsg(det))
IntakeDetectionList ==
    \E det \in DetectionLists : Intake(CameraObjectDetectionMsg(det))
IntakeCameraRegionTracking ==
    \E tr \in TrackedRegions : Intake(CameraRegionTrackingMsg(tr))
IntakeOther == \E type \in OtherTypes : Intake(OtherMsg(type))

\* Messages of the variants handle_message has no arm for, as another thread
\* may send them through the port.
UnhandledMessages ==
    {ConfigIsCurrentMsg([InitialConfig EXCEPT !.mode = Normal]),
     CameraOverlaySceneMsg,
     CameraInitTrackedRegionMsg(<<0, 0, 2, 2>>),
     OtherMsg("GimbalStatus"),
     OtherMsg("UnhandledGimbalPacket")}
IntakeUnhandled == \E msg \in UnhandledMessages : Intake(msg)

\* ControllerPort::send from another thread: the message is stamped where it
\* is sent and dropped when the input channel is full.
SentMessages ==
    {SetModeMsg(Normal), CameraObjectDetectionMsg([objects |-> <<>>, frame |-> 1])}

\* send making room for the new message by dropping the oldest item queued.
port_send_displacing(q, ts_msg) ==
    IF input_is_full(q) THEN Append(Tail(q), InputMessage(ts_msg))
    ELSE Append(q, InputMessage(ts_msg))

port_send(q, ts_msg) == try_send(q, InputMessage(ts_msg))

PortSend ==
    /\ clock < MaxSent
    /\ \E msg \in SentMessages :
           inq' = port_send(inq, Timestamped(msg, clock + 1))
    /\ clock' = clock + 1
    /\ UNCHANGED <<local_config, shared_config, manual, winches, detected,
                   pending_snap, tracked, last_mode, pc, out, bus, callers, timers>>

\* ControllerPort::add_rx up to its wait for the reply.  When try_send fails
\* the request is dropped and with it the only sender of the reply channel:
\* recv() returns Err and unwrap() panics in the calling thread.
PortAddRx ==
    /\ \E a \in Callers :
           /\ callers[a] = "idle"
           /\ inq' = try_send(inq, ReaderRequest(a))
           /\ callers' = [callers EXCEPT ![a] = IF input_is_full(inq)
                                                 THEN "panicked" ELSE "waiting"]
    /\ UNCHANGED <<local_config, shared_config, manual, winches, detected,
                   pending_snap, tracked, last_mode, pc, out, bus, clock, timers>>

\* poll(), the ReaderRequest arm: a reader of the bus is sent back on the
\* reply channel, where the caller's recv() finds it.
poll_reader_request(c, caller) == [c EXCEPT !.bus = bus_add_rx(@, caller)]

\* poll(), the intake: recv() yields the oldest item of the input channel.
PollInput ==
    /\ pc = "recv"
    /\ inq # <<>>
    /\ inq' = Tail(inq)
    /\ IF Head(inq).kind = "Message"
       THEN /\ Install(poll_message(Ctl, Head(inq).msg), "tick")
            /\ UNCHANGED callers
       ELSE /\ Install(poll_reader_request(Ctl, Head(inq).caller), "tick")
            /\ callers' = [callers EXCEPT ![Head(inq).caller] = "subscribed"]
    /\ UNCHANGED <<clock, timers>>

\* A subscriber takes the next message off its BusReader.
ReaderRecv ==
    /\ \E r \in Callers :
           /\ bus_can_recv(bus, r)
           /\ bus' = bus_recv(bus, r)
    /\ UNCHANGED <<local_config, shared_config, manual, winches, detected,
                   pending_snap, tracked, last_mode, pc, out, inq, clock, callers,
                   timers>>

(***************************************************************************)
(* The winch loops, the tracked region and the configuration share only    *)
(* the mode and the manual controls, so each is explored under its own     *)
(* specification: the same loop, fed the inputs that reach that part.      *)
(***************************************************************************)
NextWinch ==
    \/ IntakeWinchStatus
    \/ IntakeSetMode
    \/ IntakeManualRelative
    \/ IntakeManualControlReset
    \/ TickStage
    \/ VideoStage
    \/ ConfigPollStage
    \/ TimePasses

SpecWinch == Init /\ [][NextWinch]_vars

NextConfig ==
    \/ IntakeUpdateConfig
    \/ IntakeSetMode
    \/ IntakeWinchStatusNominal
    \/ IntakeManualRelative
    \/ IntakeOther
    \/ IntakeUnhandled
    \/ TickStage
    \/ VideoStage
    \/ ConfigPollStage
    \/ TimePasses
    \/ ExternalConfigWrite

SpecConfig == Init /\ [][NextConfig]_vars

NextTrack ==
    \/ IntakeCameraObjectDetection
    \/ IntakeCameraRegionTracking
    \/ IntakeManualCamera
    \/ IntakeManualControlReset
    \/ IntakeUpdateConfig
    \/ TickStage
    \/ VideoStage
    \/ ConfigPollStage
    \/ TimePasses

SpecTrack == Init /\ [][NextTrack]_vars

\* The snap of the tracked region to detected objects.
NextSnap ==
    \/ IntakeCameraObjectDetection
    \/ IntakeDetectionList
    \/ IntakeManualCamera
    \/ IntakeManualControlReset
    \/ IntakeSetMode
    \/ TickStage
    \/ VideoStage
    \/ ConfigPollStage
    \/ TimePasses

SpecSnap == Init /\ [][NextSnap]_vars

\* The period of a timer elapses.
TimerElapses ==
    /\ \E t \in Timers : ~timers[t] /\ timers' = [timers EXCEPT ![t] = TRUE]
    /\ UNCHANGED <<local_config, shared_config, manual, winches, detected,
                   pending_snap, tracked, last_mode, pc, out, inq, bus, clock,
                   callers>>

\* The loop and its timers, fed through the port for as long as messages are
\* sent.  The loop thread is scheduled: a stage it can run, it runs.
NextTimers ==
    \/ PortSend
    \/ PortAddRx
    \/ PollInput
    \/ TickStage
    \/ VideoStage
    \/ ConfigPollStage
    \/ TimerElapses

SpecTimers ==
    /\ Init
    /\ [][NextTimers]_vars
    /\ WF_vars(PollInput)
    /\ WF_vars(TickStage)
    /\ WF_vars(VideoStage)
    /\ WF_vars(ConfigPollStage)

\* The loop fed through its port, with subscribers on the bus.
NextBus ==
    \/ PortSend
    \/ PortAddRx
    \/ PollInput
    \/ ReaderRecv
    \/ TickStage
    \/ VideoStage
    \/ ConfigPollStage

SpecBus == Init /\ [][NextBus]_vars

(***************************************************************************)
(* Reading the calls of a stage.                                           *)
(***************************************************************************)
\* The last stage was the intake of a message of this type: the first call of
\* an intake is the rebroadcast of the message it dequeued.
Answering(o, type) ==
    /\ Len(o) > 0
    /\ o[1].kind = "broadcast"
    /\ o[1].msg.type = type

IsWinchCommand(ev) == ev.kind = "winch_command"
IsVelocityTick(ev) == ev.kind = "velocity_tick"
IsSharedSet(ev) == ev.kind = "shared_config.set"
IsConfigIsCurrent(ev) == ev.kind = "broadcast" /\ ev.msg.type = "ConfigIsCurrent"
IsInitTrackedRegion(ev) ==
    ev.kind = "broadcast" /\ ev.msg.type = "CameraInitTrackedRegion"

Indices(o) == 1 .. Len(o)

\* The step is the intake of a message of this type.
IntakeOf(type) == pc = "recv" /\ pc' # "recv" /\ Answering(out', type)

Overdue == \E i \in Winches : ~is_status_recent(winches[i])

(***************************************************************************)
(* C1  Halted safety.                                                      *)
(***************************************************************************)
\* C1: every WinchCommand emitted while the mode is Halted has the motor
\* disabled and the sensor position of the WinchStatus it answers as its
\* setpoint, and no winch is handed a nonzero velocity.
C1_HaltedSafety ==
    local_config.mode = Halted =>
        \A i \in Indices(out) :
            /\ IsWinchCommand(out[i]) =>
                   /\ ~out[i].command.enabled
                   /\ out[i].command.position = out[1].msg.status.position
            /\ IsVelocityTick(out[i]) => out[i].velocity = 0

(***************************************************************************)
(* C2  One WinchCommand per WinchStatus.                                   *)
(***************************************************************************)
\* C2: the handling of every WinchStatus(id, s) sends exactly one
\* WinchCommand, to winch id, and nothing else sends one.
C2_OneCommandPerStatus ==
    LET sent == {i \in Indices(out) : IsWinchCommand(out[i])}
    IN  IF Answering(out, "WinchStatus")
        THEN /\ Cardinality(sent) = 1
             /\ \A i \in sent : out[i].id = out[1].msg.id
        ELSE sent = {}

(***************************************************************************)
(* C3  Force interlock.                                                    *)
(***************************************************************************)
\* The interlock on the winch a WinchStatus step answers: a filtered force at
\* or above force_max does not raise the setpoint, one at or below force_min
\* does not lower it, and a manual velocity in the direction of the
\* ForceLimited sign leaves the setpoint alone.
Interlocked(id) ==
    /\ winches'[id].filtered_force >= ForceMax =>
           winches'[id].setpoint <= winches[id].setpoint
    /\ winches'[id].filtered_force <= ForceMin =>
           winches'[id].setpoint >= winches[id].setpoint
    /\ \A i \in Indices(out') :
           (/\ IsVelocityTick(out'[i])
            /\ out'[i].mech_status.tag = "ForceLimited"
            /\ out'[i].mech_status.f * limited_velocity(manual)[2] > 0)
               => winches'[id].setpoint = winches[id].setpoint

\* C3 as claimed: the force interlock holds in any mode.
C3_InterlockAnyMode ==
    [][\A id \in Winches :
          (IntakeOf("WinchStatus") /\ out'[1].msg.id = id) => Interlocked(id)]_vars

\* C3 as amended: the force interlock holds in every mode but Halted, where
\* the setpoint is the reported sensor position.
C3_InterlockNotHalted ==
    [][\A id \in Winches :
          (IntakeOf("WinchStatus") /\ out'[1].msg.id = id) =>
              IF local_config.mode = Halted
              THEN winches'[id].setpoint = out'[1].msg.status.position
              ELSE Interlocked(id)]_vars

\* A ForceLimited(+1) winch under manual control was handed a velocity of 0
\* while the manual velocity pushed in the direction of the force.
C3_Witness ==
    /\ pc = "tick"
    /\ Answering(out, "WinchStatus")
    /\ local_config.mode = ManualWinch(out[1].msg.id)
    /\ limited_velocity(manual)[2] = 1
    /\ \E i \in Indices(out) :
           /\ IsVelocityTick(out[i])
           /\ out[i].mech_status = ForceLimited(1)
           /\ out[i].velocity = 0
    /\ winches[out[1].msg.id].setpoint = 1

(***************************************************************************)
(* C4  Manual isolation.                                                   *)
(***************************************************************************)
\* C4: under ManualWinch(k) every winch other than k is handed velocity 0 and
\* keeps its setpoint, which its command carries; in every other mode every
\* winch is handed velocity 0.
C4_ManualIsolation ==
    [][\A id \in Winches :
          (IntakeOf("WinchStatus") /\ out'[1].msg.id = id) =>
              \A i \in Indices(out') :
                  /\ (/\ IsVelocityTick(out'[i])
                      /\ (local_config.mode.tag # "ManualWinch"
                             \/ local_config.mode.winch # id))
                         => out'[i].velocity = 0
                  /\ (/\ IsWinchCommand(out'[i])
                      /\ local_config.mode.tag = "ManualWinch"
                      /\ local_config.mode.winch # id)
                         => /\ winches'[id].setpoint = winches[id].setpoint
                            /\ out'[i].command.position = winches[id].setpoint]_vars

\* Winch 0 was answered under ManualWinch(1) while the manual velocity was 1.
C4_Witness ==
    /\ pc = "tick"
    /\ Answering(out, "WinchStatus")
    /\ out[1].msg.id = 0
    /\ local_config.mode = ManualWinch(1)
    /\ limited_velocity(manual)[2] = 1
    /\ winches[1].setpoint = 1
    /\ \E i \in Indices(out) : IsWinchCommand(out[i])

(***************************************************************************)
(* C5  Watchdog.                                                           *)
(***************************************************************************)
\* C5: once a configured winch has sent no WinchStatus for longer than
\* watchdog_timeout, the loop leaves every input it handles with the mode
\* Halted, and a ConfigIsCurrent it broadcasts carries Halted.
C5_Watchdog ==
    [][(pc = "recv" /\ pc' = "tick" /\ Overdue) =>
          /\ local_config'.mode = Halted
          /\ \A i \in Indices(out') :
                 IsConfigIsCurrent(out'[i]) => out'[i].msg.config.mode = Halted]_vars

(***************************************************************************)
(* C6  ConfigIsCurrent on every config mutation.                           *)
(***************************************************************************)
\* C6: every step that changes the local config writes the new config to the
\* shared config and broadcasts ConfigIsCurrent with it right after, and every
\* ConfigIsCurrent the loop publishes of its own, which leaves aside the
\* rebroadcast of a message it received, comes right after the write of the
\* config it carries, which the shared config holds when the step is over.
C6_ConfigIsCurrentAfterSet ==
    [][/\ local_config' # local_config =>
              (\E i \in Indices(out') :
                  /\ i > 1
                  /\ IsConfigIsCurrent(out'[i])
                  /\ out'[i].msg.config = local_config')
       /\ (pc' # pc) =>
              (\A j \in Indices(out') \ (IF pc = "recv" THEN {1} ELSE {}) :
                  IsConfigIsCurrent(out'[j]) =>
                      /\ j > 1
                      /\ out'[j - 1] = SharedSet(out'[j].msg.config)
                      /\ shared_config' = out'[j].msg.config)]_vars

\* The watchdog halted a loop that was not Halted: the WinchStatus it answered
\* got a command with the motor enabled and ConfigIsCurrent carries Halted.
C6_Witness ==
    /\ pc = "tick"
    /\ Answering(out, "WinchStatus")
    /\ \E i \in Indices(out) :
           IsConfigIsCurrent(out[i]) /\ out[i].msg.config.mode = Halted
    /\ \E i \in Indices(out) : IsWinchCommand(out[i]) /\ out[i].command.enabled
    /\ shared_config.mode = Halted

(***************************************************************************)
(* C7  Config round trip.                                                  *)
(***************************************************************************)
\* C7: the handling of an UpdateConfig whose merge succeeds leaves
\* merge(previous local config, patch) in the shared config and broadcasts
\* ConfigIsCurrent with that value.
C7_ConfigRoundTrip ==
    [][(IntakeOf("UpdateConfig") /\ merge(local_config, out'[1].msg.patch).ok) =>
          LET merged == merge(local_config, out'[1].msg.patch).config
          IN  /\ shared_config' = merged
              /\ \E i \in Indices(out') :
                     /\ i > 1
                     /\ IsConfigIsCurrent(out'[i])
                     /\ out'[i].msg.config = merged
              /\ \A i \in Indices(out') :
                     IsConfigIsCurrent(out'[i]) => out'[i].msg.config = merged]_vars

\* A patch of tracking_default_area was merged into a config whose mode an
\* earlier message had changed: the shared config has both.
C7_Witness ==
    /\ pc = "tick"
    /\ Answering(out, "UpdateConfig")
    /\ out[1].msg.patch = Patch("tracking_default_area" :> 16, TRUE)
    /\ shared_config = [mode |-> ManualWinch(0), velocity |-> 1,
                        tracking_default_area |-> 16]
    /\ \E i \in Indices(out) :
           IsConfigIsCurrent(out[i]) /\ out[i].msg.config = shared_config

(***************************************************************************)
(* C8  Merge failure.                                                      *)
(***************************************************************************)
\* C8: the handling of an UpdateConfig whose merge fails changes neither the
\* local config, the shared config nor the ControllerState, broadcasts the
\* UpdateConfig message and nothing else, and goes on to the next stage.
C8_MergeFailureIgnored ==
    [][(IntakeOf("UpdateConfig") /\ ~merge(local_config, out'[1].msg.patch).ok) =>
          /\ UNCHANGED <<local_config, shared_config, manual, winches, detected,
                         pending_snap, tracked, last_mode>>
          /\ out' = <<BusBroadcast(out'[1].msg)>>
          /\ pc' = "tick"]_vars

\* A patch that does not merge was handled under a config and manual axes
\* that earlier inputs had changed.
C8_Witness ==
    /\ pc = "tick"
    /\ Answering(out, "UpdateConfig")
    /\ ~out[1].msg.patch.well_typed
    /\ local_config.mode = ManualWinch(0)
    /\ manual # ManualNew

(***************************************************************************)
(* C9  Tracking containment of the returned rect.                          *)
(***************************************************************************)
\* C9: every rect tracking_update returns, which the tick and the detection
\* handler broadcast as CameraInitTrackedRegion, lies within border_rect.
C9_ReturnedRectInBorder ==
    \A i \in Indices(out) :
        IsInitTrackedRegion(out[i]) => rect_inside(out[i].msg.rect, BorderRect)

(***************************************************************************)
(* C10  Containment of the stored tracked rect.                            *)
(***************************************************************************)
\* C10: once tracking_update, a CameraRegionTracking command or a reset has
\* written the tracked region, its rect lies within border_rect.
C10_StoredRectInBorder ==
    tracked # CameraTrackedRegionNew => rect_inside(tracked.rect, BorderRect)

(***************************************************************************)
(* C11  Broadcast ordering.                                                *)
(***************************************************************************)
\* The broadcast calls of a stage.
Broadcasts(o) == {i \in Indices(o) : o[i].kind = "broadcast"}

\* C11: a subscriber that has not overflowed, one for which fewer than
\* BusDepth entries were waiting at every broadcast, receives the broadcasts
\* made since it joined without a gap: none of them was dropped for it.
C11_PrefixOfArrivalOrder ==
    \A r \in Readers(bus) : ~bus.readers[r].missed

(***************************************************************************)
(* C12  Overflow drops for the slowest receivers only.                     *)
(***************************************************************************)
\* C12: a subscriber that has read everything published so far receives
\* every message the next stage of the loop broadcasts, whatever the other
\* subscribers have left unread.
C12_KeptUpStillReceives ==
    [][(pc' # pc) =>
          \A r \in Readers(bus) :
              backlog(bus, r) = 0 =>
                  backlog(bus', r) = Cardinality(Broadcasts(out'))]_vars

(***************************************************************************)
(* C13  Late subscriber.                                                   *)
(***************************************************************************)
IsBroadcast(ev) == ev.kind = "broadcast"

\* The messages a stage broadcast, in the order of the calls.
BroadcastMsgs(o) ==
    LET calls == SelectSeq(o, IsBroadcast)
    IN  [i \in 1 .. Len(calls) |-> calls[i].msg]

\* The messages waiting for a subscriber, oldest first.
Waiting(b, r) ==
    LET entries == SubSeq(b.ring, b.readers[r].pos + 1, Len(b.ring))
    IN  [i \in 1 .. Len(entries) |-> entries[i].msg]

Overflowed(o) == \E i \in Indices(o) : o[i] = BusOverflowLogged

\* C13: a subscriber joins with nothing waiting for it, only entries written
\* while it was subscribed ever wait for it, a stage of the loop that did not
\* overflow the bus adds all its broadcasts, in order, to what waits for every
\* subscriber, and a subscriber reads what waits for it oldest first.
C13_LateSubscriber ==
    [][/\ \A r \in Readers(bus') \ Readers(bus) : Waiting(bus', r) = <<>>
       /\ \A r \in Readers(bus') :
              \A i \in (bus'.readers[r].pos + 1) .. Len(bus'.ring) :
                  r \in bus'.ring[i].for
       /\ (pc' # pc /\ ~Overflowed(out')) =>
              \A r \in Readers(bus) :
                  Waiting(bus', r) = Waiting(bus, r) \o BroadcastMsgs(out')
       /\ (pc' = pc /\ bus' # bus) =>
              \E r \in Readers(bus) :
                  /\ Waiting(bus, r) # <<>>
                  /\ Waiting(bus', r) = Tail(Waiting(bus, r))
                  /\ \A q \in Readers(bus) \ {r} :
                         Waiting(bus', q) = Waiting(bus, q)]_vars

\* Subscriber 2 joined after a broadcast subscriber 1 has yet to read, and a
\* later broadcast waits for both.
C13_Witness ==
    /\ Readers(bus) = {1, 2}
    /\ Len(Waiting(bus, 1)) = 2
    /\ Len(Waiting(bus, 2)) = 1
    /\ Waiting(bus, 2)[1] = Waiting(bus, 1)[2]

(***************************************************************************)
(* C14  ControllerPort::send.                                              *)
(***************************************************************************)
\* C14: send is always possible.  On a full input channel it leaves the
\* channel as it is, otherwise it adds its message, stamped with the time of
\* the send, behind the items queued; neither changes anything of the loop.
\* Items leave the channel at the head only, and the loop rebroadcasts the
\* message it takes with the timestamp it carries.
C14_SendNeverBlocks ==
    [][/\ clock < MaxSent => ENABLED PortSend
       /\ clock' # clock =>
              /\ IF input_is_full(inq) THEN inq' = inq
                 ELSE /\ Len(inq') = Len(inq) + 1
                      /\ SubSeq(inq', 1, Len(inq)) = inq
                      /\ inq'[Len(inq')].kind = "Message"
                      /\ inq'[Len(inq')].msg.timestamp = clock'
              /\ UNCHANGED <<local_config, shared_config, manual, winches, pc,
                             out, bus>>
       /\ inq' # inq =>
              \/ Len(inq') = Len(inq) + 1 /\ SubSeq(inq', 1, Len(inq)) = inq
              \/ inq' = Tail(inq) /\ pc = "recv" /\ pc' = "tick"
       /\ (pc = "recv" /\ pc' # pc /\ Head(inq).kind = "Message") =>
              /\ out'[1] = BusBroadcast(Head(inq).msg)
              /\ out'[1].msg.timestamp = Head(inq).msg.timestamp]_vars

\* The second message was sent to a full input channel: the first message
\* and the reader request queued before it are where they were.
C14_Witness ==
    /\ clock = 2
    /\ Len(inq) = 2
    /\ inq[1].kind = "Message" /\ inq[1].msg.timestamp = 1
    /\ inq[2].kind = "ReaderRequest"

(***************************************************************************)
(* C15  ControllerPort::add_rx.                                            *)
(***************************************************************************)
\* C15: add_rx ends with a subscriber or an error value in every state of
\* the input channel: it never aborts the thread that calls it.
C15_AddRxReturns ==
    \A a \in Callers : callers[a] # "panicked"

(***************************************************************************)
(* C16  No error is fatal to the loop.                                     *)
(***************************************************************************)
\* C16: whatever the inputs, the loop thread keeps running.
C16_LoopKeepsRunning ==
    pc # "panicked"

(***************************************************************************)
(* C17  Broadcast precedes handling.                                       *)
(***************************************************************************)
\* C17: when the loop takes a message off the input channel, the first call
\* it makes is the broadcast of that message, so every broadcast the handling
\* produces comes after it, and the first entry the stage adds to what waits
\* for a subscriber is that message.
C17_BroadcastPrecedesHandling ==
    [][(pc = "recv" /\ pc' # pc /\ Head(inq).kind = "Message") =>
          LET m == Head(inq).msg
          IN  /\ out'[1] = BusBroadcast(m)
              /\ \A i \in Broadcasts(out') \ {1} :
                     out'[i].msg.type \in {"ConfigIsCurrent",
                                           "CameraInitTrackedRegion"}
              /\ \A r \in Readers(bus) :
                     Len(Waiting(bus', r)) > Len(Waiting(bus, r)) =>
                         Waiting(bus', r)[Len(Waiting(bus, r)) + 1] = m]_vars

\* A SetMode that changed the mode waits for subscriber 1 in front of the
\* ConfigIsCurrent it caused.
C17_Witness ==
    /\ pc = "tick"
    /\ Len(out) = 3
    /\ out[1].kind = "broadcast" /\ out[1].msg.type = "SetMode"
    /\ IsConfigIsCurrent(out[3])
    /\ 1 \in Readers(bus)
    /\ Waiting(bus, 1) = <<out[1].msg, out[3].msg>>

(***************************************************************************)
(* C18  Manual controls are reset on every mode change.                    *)
(***************************************************************************)
\* C18: a step that changes the mode of the local config, by SetMode, by a
\* merged patch, by the adoption of a polled snapshot or by the watchdog,
\* leaves every manual axis and the rate-limited velocity at zero.
C18_ModeChangeResetsManual ==
    [][local_config'.mode # local_config.mode =>
          /\ \A axis \in Axes : manual'.axes[axis] = 0
          /\ manual' = ManualNew
          /\ last_mode' = local_config'.mode]_vars

\* The watchdog halted the loop right after the manual velocity had driven
\* a winch: the axes are back at zero.
C18_Witness ==
    /\ pc = "tick"
    /\ Answering(out, "WinchStatus")
    /\ \E i \in Indices(out) : IsVelocityTick(out[i]) /\ out[i].velocity # 0
    /\ \E i \in Indices(out) :
           IsConfigIsCurrent(out[i]) /\ out[i].msg.config.mode = Halted
    /\ manual = ManualNew

(***************************************************************************)
(* C19  SetMode to the current mode.                                       *)
(***************************************************************************)
\* C19: the handling of SetMode(m) with m the current mode rebroadcasts the
\* command and does nothing else: no write of the local or the shared config,
\* no ConfigIsCurrent, no reset of the manual controls.  With another m the
\* mode becomes m and config_changed runs once: one write of the shared
\* config, one ConfigIsCurrent.
C19_SetModeSameIsNoOp ==
    [][IntakeOf("SetMode") =>
          IF out'[1].msg.mode = local_config.mode
          THEN /\ out' = <<BusBroadcast(out'[1].msg)>>
               /\ UNCHANGED <<local_config, shared_config, manual, last_mode>>
          ELSE /\ local_config' = [local_config EXCEPT !.mode = out'[1].msg.mode]
               /\ Cardinality({i \in Indices(out') : IsSharedSet(out'[i])}) = 1
               /\ Cardinality({i \in Indices(out') : IsConfigIsCurrent(out'[i])}) = 1
               /\ shared_config' = local_config']_vars

\* SetMode(ManualWinch(0)) was handled in mode ManualWinch(0) with a manual
\* axis deflected and a newer snapshot in the shared config.
C19_Witness ==
    /\ pc = "tick"
    /\ Answering(out, "SetMode")
    /\ out[1].msg.mode = ManualWinch(0)
    /\ local_config.mode = ManualWinch(0)
    /\ Len(out) = 1
    /\ manual # ManualNew
    /\ shared_config # local_config

(***************************************************************************)
(* C20  CameraRegionTracking and manual camera control.                    *)
(***************************************************************************)
\* C20: the handling of CameraRegionTracking(tr) makes tr the tracked region
\* when both camera axes are zero and leaves the tracked region as it is
\* when either is not.
C20_RegionTrackingOnlyWhenInactive ==
    [][IntakeOf("CameraRegionTracking") =>
          IF manual.axes["CameraYaw"] = 0 /\ manual.axes["CameraPitch"] = 0
          THEN tracked' = out'[1].msg.tr
          ELSE tracked' = tracked]_vars

\* A CameraRegionTracking command arrived while a camera axis was deflected
\* and the tracked region is not the one it carried.
C20_Witness ==
    /\ pc = "tick"
    /\ Answering(out, "CameraRegionTracking")
    /\ manual.axes["CameraYaw"] # 0
    /\ tracked # out[1].msg.tr
    /\ tracked # CameraTrackedRegionNew

(***************************************************************************)
(* C21  Snap selection.                                                    *)
(***************************************************************************)
\* The label of the object has a snap rule whose minimum its prob reaches.
Qualifies(obj) ==
    \E r \in 1 .. Len(SnapRules) :
        obj.label = SnapRules[r].label /\ obj.prob >= SnapRules[r].prob

Qualifying(objects) == {i \in 1 .. Len(objects) : Qualifies(objects[i])}

\* The first of the qualifying objects of the highest prob.
SnapChoice(objects) ==
    LET q == Qualifying(objects)
    IN  IF q = {} THEN None
        ELSE Some(objects[CHOOSE i \in q :
                              \A j \in q : \/ objects[i].prob > objects[j].prob
                                           \/ /\ objects[i].prob = objects[j].prob
                                              /\ i <= j])

\* C21: find_best_snap_object yields nothing when no snap is pending, when
\* the detection is past the freshness window or when the mode is Halted;
\* otherwise it yields the qualifying object of the highest prob, the first
\* of them in the detection list when several share it, and nothing when no
\* object qualifies.
C21_SnapSelection ==
    find_best_snap_object(Ctl) =
        IF ~pending_snap \/ detected.age > DetectionMaxAge
               \/ local_config.mode = Halted
        THEN None
        ELSE SnapChoice(detected.objects)

\* A snap is pending on a fresh detection in which the second and the third
\* object share the highest prob, and the second is the one selected.
C21_Witness ==
    /\ pending_snap
    /\ detected.age <= DetectionMaxAge
    /\ local_config.mode # Halted
    /\ Len(detected.objects) = 3
    /\ detected.objects[2].prob = detected.objects[3].prob
    /\ detected.objects[1].prob < detected.objects[2].prob
    /\ detected.objects[2] = Dog9
    /\ find_best_snap_object(Ctl) = Some(Dog9)

(***************************************************************************)
(* C22  The lifecycle of pending_snap.                                     *)
(***************************************************************************)
\* The step is a tick stage whose timer fired.
TickFired == pc = "tick" /\ pc' = "video" /\ out' # <<>>

\* A snap is pending on a fresh detection with a qualifying object, outside
\* Halted and with the manual camera control inactive: tracking_update snaps.
SnapDue ==
    /\ pending_snap
    /\ detected.age <= DetectionMaxAge
    /\ local_config.mode # Halted
    /\ Qualifying(detected.objects) # {}
    /\ ~camera_control_active(manual)

\* The tracked region after the reset branch of tracking_update.
ResetRegion == reset_tracking_rect(Ctl).tracked

\* C22 as claimed: a tracking_update that finds the stored detection older
\* than the freshness window leaves pending_snap false.
C22_ClearedWhenStale ==
    [][(TickFired /\ detected.age > DetectionMaxAge) => ~pending_snap']_vars

\* C22 as amended: the handling of a CameraObjectDetection leaves pending_snap
\* true unless it snaps at once; a tick clears pending_snap exactly when it
\* snaps; no other step changes it, a detection past the freshness window
\* included; and a tick with no snap pending does not snap.
C22_PendingSnapLifecycle ==
    [][/\ IntakeOf("CameraObjectDetection") =>
              LET det == out'[1].msg.det
                  snap_now == /\ local_config.mode # Halted
                              /\ Qualifying(det.objects) # {}
                              /\ ~camera_control_active(manual)
              IN  /\ pending_snap' = ~snap_now
                  /\ snap_now => /\ tracked'.frame = det.frame
                                 /\ tracked'.rect = rect_constrain(
                                        SnapChoice(det.objects).val.rect, BorderRect)
       /\ TickFired =>
              /\ pending_snap' = (pending_snap /\ ~SnapDue)
              /\ SnapDue => /\ tracked'.frame = detected.frame
                            /\ tracked'.rect = rect_constrain(
                                   SnapChoice(detected.objects).val.rect, BorderRect)
              /\ (~SnapDue /\ ~camera_control_active(manual)) =>
                     tracked' \in {tracked, ResetRegion}
       /\ (~IntakeOf("CameraObjectDetection") /\ ~TickFired) =>
              pending_snap' = pending_snap]_vars

\* A tick ran on a detection past the freshness window that had a qualifying
\* object, outside Halted and with the manual camera control inactive: the
\* snap is still pending and the tracked region was not snapped.
C22_Witness ==
    /\ pc = "video"
    /\ out # <<>>
    /\ pending_snap
    /\ detected.age > DetectionMaxAge
    /\ local_config.mode # Halted
    /\ Qualifying(detected.objects) # {}
    /\ ~camera_control_active(manual)
    /\ tracked.frame # detected.frame

(***************************************************************************)
(* C23  The branches of tracking_update.                                   *)
(***************************************************************************)
\* bad, without the reset request of the gimbal.
TrackingBad ==
    \/ tracked.age > 0 /\ tracked.psr < TrackingMinPsr
    \/ rect_area(tracked.rect) < TrackingMinArea
    \/ rect_area(tracked.rect) > TrackingMaxArea

\* The branch tracking_update is to take, first match first.
Branch(reset_from_gimbal) ==
    IF camera_control_active(manual) THEN "manual"
    ELSE IF SnapDue THEN "snap"
    ELSE IF TrackingBad \/ reset_from_gimbal THEN "reset"
    ELSE "none"

C24_SnapBroadcastOnce ==
    [][/\ (/\ IntakeOf("CameraObjectDetection")
           /\ local_config.mode # Halted
           /\ Qualifying(out'[1].msg.det.objects) # {}
           /\ ~camera_control_active(manual)) =>
              LET det == out'[1].msg.det
                  rect == rect_constrain(SnapChoice(det.objects).val.rect,
                                         BorderRect)
              IN  /\ out' = <<BusBroadcast(CameraObjectDetectionMsg(det)),
                              BusBroadcast(CameraInitTrackedRegionMsg(rect))>>
                  /\ rect_inside(rect, BorderRect)
                  /\ ~pending_snap'
       /\ (TickFired /\ ~pending_snap /\ ~camera_control_active(manual)) =>
              /\ ~pending_snap'
              /\ \A i \in Indices(out') :
                     IsInitTrackedRegion(out'[i]) =>
                         /\ out'[i].msg.rect = default_tracking_rect(local_config)
                         /\ tracked' = ResetRegion]_vars

\* The detection of three objects was handled in a mode other than Halted:
\* the rect broadcast is that of the first object of the highest prob, moved
\* into the border.
C24_Witness ==
    /\ pc = "tick"
    /\ Len(out) = 2
    /\ out[1] = BusBroadcast(CameraObjectDetectionMsg(
                    [objects |-> <<Person5, Person9, Dog9>>, frame |-> 2]))
    /\ out[2] = BusBroadcast(CameraInitTrackedRegionMsg(<<0, -1, 2, 2>>))
    /\ local_config.mode # Halted
    /\ ~pending_snap
    /\ tracked.frame = 2

(***************************************************************************)
(* C25  The timers and inbound traffic.                                    *)
(***************************************************************************)
\* C25: once the period of a timer has elapsed the loop polls that timer and
\* runs its handler, whether or not anything more arrives on the input
\* channel.
C25_TimersFireWithoutTraffic ==
    \A t \in Timers : timers[t] ~> ~timers[t]

(***************************************************************************)
(* C26  Messages handle_message has no arm for.                            *)
(***************************************************************************)
UnhandledTypes == {"ConfigIsCurrent", "CameraOverlayScene",
                   "CameraInitTrackedRegion", "GimbalStatus",
                   "UnhandledGimbalPacket"}

\* C26: the intake of a message of a variant without an arm broadcasts that
\* message and makes no other call, and changes neither the local config, the
\* shared config, the manual controls, the winches nor the tracking state;
\* the loop goes on to the tick stage.
C26_UnhandledOnlyRebroadcast ==
    [][\A type \in UnhandledTypes :
          IntakeOf(type) =>
              /\ Len(out') = 1
              /\ out'[1].kind = "broadcast"
              /\ UNCHANGED <<local_config, shared_config, manual, winches,
                             detected, pending_snap, tracked, last_mode>>
              /\ pc' = "tick"]_vars

\* A ConfigIsCurrent with mode Normal came in through the port while the
\* local and the shared config had a manual mode and a manual axis was
\* deflected: it was broadcast and nothing took its config.
C26_Witness ==
    /\ pc = "tick"
    /\ out = <<BusBroadcast(ConfigIsCurrentMsg([InitialConfig EXCEPT
                                                   !.mode = Normal]))>>
    /\ local_config.mode = ManualWinch(0)
    /\ shared_config.mode = ManualWinch(0)
    /\ last_mode = ManualWinch(0)
    /\ manual # ManualNew

(***************************************************************************)
(* C27  The WinchCommand of the WinchStatus that trips the watchdog.       *)
(***************************************************************************)
\* C27: when the handling of a WinchStatus forces the mode to Halted, the
\* WinchCommand it sends comes after the ConfigIsCurrent of the halt, has the
\* motor disabled and has the reported sensor position as its setpoint.
C27_TrippingCommandIsHalted ==
    [][(/\ IntakeOf("WinchStatus")
        /\ local_config.mode # Halted
        /\ local_config'.mode = Halted) =>
          \A i \in Indices(out') :
              IsWinchCommand(out'[i]) =>
                  /\ \E j \in 1 .. (i - 1) : IsConfigIsCurrent(out'[j])
                  /\ ~out'[i].command.enabled
                  /\ out'[i].command.position = out'[1].msg.status.position]_vars

(***************************************************************************)
(* C28  One ConfigIsCurrent per trip of the watchdog.                      *)
(***************************************************************************)
\* C28: the handling of a WinchStatus while the mode is already Halted leaves
\* the config as it is, so it neither writes the shared config nor
\* broadcasts ConfigIsCurrent, whether or not a winch is overdue.
C28_NoRepeatWhileHalted ==
    [][(IntakeOf("WinchStatus") /\ local_config.mode = Halted) =>
          /\ local_config' = local_config
          /\ \A i \in Indices(out') :
                 ~IsSharedSet(out'[i]) /\ ~IsConfigIsCurrent(out'[i])]_vars

(***************************************************************************)
(* C29  A snapshot another thread writes to the SharedConfigFile.          *)
(***************************************************************************)
\* C29: while the shared config holds a snapshot the loop has not adopted,
\* no stage of the loop replaces it: a stage leaves the shared config as it
\* is or makes the snapshot its local config.
C29_ExternalSnapshotKept ==
    [][(pc' # pc /\ shared_config # local_config) =>
          \/ shared_config' = shared_config
          \/ local_config' = shared_config]_vars

(***************************************************************************)
(* C30  The target velocity of the manual winch.                           *)
(***************************************************************************)
\* The velocity the manual winch is to be given.
ManualTarget(v, mech_status) ==
    IF mech_status.tag = "Normal" THEN v
    ELSE IF mech_status.tag = "Stuck" THEN 0
    ELSE IF v * mech_status.f < 0 THEN v
    ELSE 0

\* C30: the handling of a WinchStatus of winch k under ManualWinch(k) hands
\* velocity_tick the Y component v of the manual limited velocity when the
\* winch is Normal, 0 when it is Stuck, and under ForceLimited(f) v when
\* v * f < 0 and 0 otherwise; the same holds of the computation for every v
\* and f, zero included.
C30_ManualWinchTarget ==
    [][\A k \in Winches :
          (/\ IntakeOf("WinchStatus")
           /\ out'[1].msg.id = k
           /\ local_config.mode = ManualWinch(k)) =>
              /\ \E i \in Indices(out') : IsVelocityTick(out'[i])
              /\ \A i \in Indices(out') :
                     IsVelocityTick(out'[i]) =>
                         out'[i].velocity =
                             ManualTarget(limited_velocity(manual)[2],
                                          out'[i].mech_status)
              /\ \A v \in -1 .. 1, f \in -1 .. 1 :
                     /\ target_velocity(ManualWinch(k), k, v, ForceLimited(f)) =
                            (IF v * f < 0 THEN v ELSE 0)
                     /\ target_velocity(ManualWinch(k), k, v, MechNormal) = v
                     /\ target_velocity(ManualWinch(k), k, v, MechStuck) = 0]_vars

\* Winch 0, limited at the low force, was answered under ManualWinch(0) while
\* the manual velocity pulled in the direction that raises the force: it was
\* handed that velocity and its setpoint moved.
C30_Witness ==
    /\ pc = "tick"
    /\ Answering(out, "WinchStatus")
    /\ out[1].msg.id = 0
    /\ local_config.mode = ManualWinch(0)
    /\ limited_velocity(manual)[2] = 1
    /\ \E i \in Indices(out) :
           /\ IsVelocityTick(out[i])
           /\ out[i].mech_status = ForceLimited(-1)
           /\ out[i].velocity = 1
    /\ winches[0].setpoint = 1

====
